---------------------------- MODULE Spec2Model ----------------------------
(***************************************************************************)
(* Model of the fabric-shop billing backend (src/main.py): the inventory   *)
(* and sales_records tables, the request handlers add_stock, update_stock, *)
(* delete_stock, get_inventory and create_bill, Python's Decimal           *)
(* arithmetic and the Numeric(10, 2) columns of the PostgreSQL schema.     *)
(***************************************************************************)
EXTENDS Integers, Sequences, FiniteSets, TLC

VARIABLES
    inventory,          \* table "inventory": id -> row
    sales_records,      \* table "sales_records": rows in insertion order (row i has id i)
    inventory_id_seq,   \* the serial behind Inventory.id: ids handed out so far
    requests,           \* create-bill requests between validation and commit
    response,           \* what the last completed request returned
    sessions            \* database sessions opened and not closed

vars == <<inventory, sales_records, inventory_id_seq, requests, response, sessions>>

-----------------------------------------------------------------------------
(* Bounds of the model.                                                    *)

MaxLots == 2

MaxSales == 2

MaxWorkers == 2

\* sessions left open by failed requests
MaxLeaked == 2

-----------------------------------------------------------------------------
(* decimal.Decimal: a coefficient n and a number s of fractional digits,   *)
(* the value being n / 10^s.  Decimal(str(x)) of a float x keeps the       *)
(* digits str(x) prints, so 5.0 is [n |-> 50, s |-> 1].                    *)

Decimal(n, s) == [n |-> n, s |-> s]

RECURSIVE Pow10(_)
Pow10(k) == IF k <= 0 THEN 1 ELSE 10 * Pow10(k - 1)

MaxScale(a, b) == IF a.s >= b.s THEN a.s ELSE b.s

\* the coefficient of a at s fractional digits (s >= a.s)
Rescale(a, s) == a.n * Pow10(s - a.s)

DecAdd(a, b) ==
    LET s == MaxScale(a, b) IN Decimal(Rescale(a, s) + Rescale(b, s), s)

DecSub(a, b) ==
    LET s == MaxScale(a, b) IN Decimal(Rescale(a, s) - Rescale(b, s), s)

DecMul(a, b) == Decimal(a.n * b.n, a.s + b.s)

DecGt(a, b) ==
    LET s == MaxScale(a, b) IN Rescale(a, s) > Rescale(b, s)

Zero == Decimal(0, 0)

\* sold_meters = Decimal('0'); for sale in ...: sold_meters += ...
RECURSIVE DecSum(_)
DecSum(ds) ==
    IF ds = <<>> THEN Zero
    ELSE DecAdd(DecSum(SubSeq(ds, 1, Len(ds) - 1)), ds[Len(ds)])

\* the digits a Numeric(10, 2) column keeps
Scale == 2

\* the digits a Numeric(10, 2) column holds in all
Precision == 10

\* the number of decimal digits of a natural number
RECURSIVE Digits(_)
Digits(n) == IF n < 10 THEN 1 ELSE 1 + Digits(n \div 10)

\* A value written to a Numeric(10, 2) column and read back (db.refresh):
\* PostgreSQL rounds to two fractional digits, ties away from zero.
NumericColumn(d) ==
    IF d.s <= Scale THEN Decimal(Rescale(d, Scale), Scale)
    ELSE LET q == Pow10(d.s - Scale)
             m == IF d.n >= 0 THEN d.n ELSE 0 - d.n
             r == (m + (q \div 2)) \div q
         IN  Decimal(IF d.n >= 0 THEN r ELSE 0 - r, Scale)

\* PostgreSQL refuses a value whose rounding to Scale digits needs more
\* than Precision digits ("numeric field overflow"); the commit raises
NumericOverflow(d) ==
    LET abs(n) == IF n >= 0 THEN n ELSE 0 - n
    IN  IF d.s <= Scale
        THEN d.n # 0 /\ Digits(abs(d.n)) - d.s > Precision - Scale
        ELSE Digits(abs(NumericColumn(d).n)) > Precision

-----------------------------------------------------------------------------
(* Optional[...] request fields and nullable columns: None is the empty    *)
(* set, a value x is {x}.                                                  *)

None == {}

Some(x) == {x}

Value(o) == CHOOSE x \in o : TRUE

\* Python truthiness of an Optional[int]: None and 0 are false
Truthy(o) == o # None /\ o # Some(0)

\* Python truthiness of an Optional[str]: None and "" are false
TruthyStr(o) == o # None /\ o # Some("")

\* a or b
Or(a, b) == IF TruthyStr(a) THEN a ELSE b

-----------------------------------------------------------------------------
(* The tables.                                                             *)

\* datetime.utcnow at insertion, as a logical clock: the rows inserted so far
utcnow == inventory_id_seq + Len(sales_records)

\* db.query(Inventory).filter(Inventory.id == id).first()
InventoryExists(inv, id) == id \in DOMAIN inv

RECURSIVE SortedIds(_)
SortedIds(S) ==
    IF S = {} THEN <<>>
    ELSE LET m == CHOOSE x \in S : \A y \in S : x <= y
         IN  <<m>> \o SortedIds(S \ {m})

\* db.query(Inventory).all()
AllInventory(inv) ==
    LET ids == SortedIds(DOMAIN inv) IN [i \in 1..Len(ids) |-> inv[ids[i]]]

\* a response: the handler, the HTTP status, the detail of an HTTPException
\* (up to the figures the message quotes) and the body returned
NoResponse == [op |-> "none", status |-> 0, detail |-> "", body |-> <<>>]

Respond(op, status, detail, body) ==
    [op |-> op, status |-> status, detail |-> detail, body |-> body]

\* db = SessionLocal()
SessionLocal(open) == open + 1

\* db.close()
close(open) == open - 1

Init ==
    /\ inventory = << >>
    /\ sales_records = << >>
    /\ inventory_id_seq = 0
    /\ requests = [w \in 1..MaxWorkers |-> None]
    /\ response = NoResponse
    /\ sessions = 0

-----------------------------------------------------------------------------
(* POST /add-stock                                                         *)

add_stock_row(stock, id, now) ==
    LET total_meters == DecMul(stock.total_thans, stock.meters_per_than)
        total_stock_value == DecMul(total_meters, stock.cost_price_per_meter)
    IN  [id |-> id,
         company_name |-> stock.company_name,
         design_code |-> stock.design_code,
         total_thans |-> NumericColumn(stock.total_thans),
         meters_per_than |-> NumericColumn(stock.meters_per_than),
         total_meters |-> NumericColumn(total_meters),
         cost_price_per_meter |-> NumericColumn(stock.cost_price_per_meter),
         total_stock_value |-> NumericColumn(total_stock_value),
         created_at |-> now]

\* the values a stock request puts in the five Numeric columns of its row
stock_columns(total_thans, meters_per_than, cost_price_per_meter) ==
    LET total_meters == DecMul(total_thans, meters_per_than)
    IN  {total_thans, meters_per_than, total_meters, cost_price_per_meter,
         DecMul(total_meters, cost_price_per_meter)}

\* db.commit() raises: the handler has no "finally", "except Exception"
\* raises the 500 and db.close() is not reached
add_stock_failed ==
    /\ sessions < MaxLeaked
    /\ response' = Respond("add_stock", 500, "DataError", <<>>)
    /\ sessions' = SessionLocal(sessions)
    /\ UNCHANGED <<inventory, inventory_id_seq>>

add_stock(stock) ==
    /\ inventory_id_seq < MaxLots
    /\ IF \E d \in stock_columns(stock.total_thans, stock.meters_per_than,
                                 stock.cost_price_per_meter) : NumericOverflow(d)
       THEN add_stock_failed
       ELSE LET id == inventory_id_seq + 1
                row == add_stock_row(stock, id, utcnow)
            IN  /\ inventory' = (id :> row) @@ inventory
                /\ inventory_id_seq' = id
                /\ response' = Respond("add_stock", 200, "", <<row>>)
                /\ sessions' = close(SessionLocal(sessions))
    /\ UNCHANGED <<sales_records, requests>>

-----------------------------------------------------------------------------
(* PUT /update-stock/{stock_id}                                            *)

\* "if stock_update.f is not None: inventory.f = ...": the attribute after
\* the assignments, before the commit
Updated(field, old) == IF field # None THEN Value(field) ELSE old

\* mutant: the request replaces the row's labels, an absent design_code
\* is stored empty
update_stock_row_replacing(inv_row, stock_update) ==
    LET total_thans == Updated(stock_update.total_thans, inv_row.total_thans)
        meters_per_than ==
            Updated(stock_update.meters_per_than, inv_row.meters_per_than)
        cost_price_per_meter ==
            Updated(stock_update.cost_price_per_meter, inv_row.cost_price_per_meter)
        total_meters == DecMul(total_thans, meters_per_than)
        total_stock_value == DecMul(total_meters, cost_price_per_meter)
    IN  [id |-> inv_row.id,
         company_name |-> Updated(stock_update.company_name, inv_row.company_name),
         design_code |-> Updated(stock_update.design_code, ""),
         total_thans |-> NumericColumn(total_thans),
         meters_per_than |-> NumericColumn(meters_per_than),
         total_meters |-> NumericColumn(total_meters),
         cost_price_per_meter |-> NumericColumn(cost_price_per_meter),
         total_stock_value |-> NumericColumn(total_stock_value),
         created_at |-> inv_row.created_at]

update_stock_row(inv_row, stock_update) ==
    LET total_thans == Updated(stock_update.total_thans, inv_row.total_thans)
        meters_per_than ==
            Updated(stock_update.meters_per_than, inv_row.meters_per_than)
        cost_price_per_meter ==
            Updated(stock_update.cost_price_per_meter, inv_row.cost_price_per_meter)
        total_meters == DecMul(total_thans, meters_per_than)
        total_stock_value == DecMul(total_meters, cost_price_per_meter)
    IN  [id |-> inv_row.id,
         company_name |-> Updated(stock_update.company_name, inv_row.company_name),
         design_code |-> Updated(stock_update.design_code, inv_row.design_code),
         total_thans |-> NumericColumn(total_thans),
         meters_per_than |-> NumericColumn(meters_per_than),
         total_meters |-> NumericColumn(total_meters),
         cost_price_per_meter |-> NumericColumn(cost_price_per_meter),
         total_stock_value |-> NumericColumn(total_stock_value),
         created_at |-> inv_row.created_at]

\* mutant: a change of a lot's labels is carried over to the kameez labels
\* of the sales records kameez-linked to the lot
update_stock_relabelling(stock_id, stock_update) ==
    /\ IF ~InventoryExists(inventory, stock_id)
       THEN /\ response' = Respond("update_stock", 404, "Stock item not found", <<>>)
            /\ UNCHANGED <<inventory, sales_records>>
       ELSE LET row == update_stock_row(inventory[stock_id], stock_update)
            IN  /\ inventory' = [inventory EXCEPT ![stock_id] = row]
                /\ sales_records' =
                      [i \in DOMAIN sales_records |->
                         IF sales_records[i].kameez_inventory_id = Some(stock_id)
                         THEN [sales_records[i] EXCEPT
                                  !.kameez_company_name = Some(row.company_name),
                                  !.kameez_design_code = Some(row.design_code)]
                         ELSE sales_records[i]]
                /\ response' = Respond("update_stock", 200, "", <<row>>)
    /\ sessions' = close(SessionLocal(sessions))
    /\ UNCHANGED <<inventory_id_seq, requests>>

update_stock(stock_id, stock_update) ==
    /\ IF ~InventoryExists(inventory, stock_id)
       THEN /\ response' = Respond("update_stock", 404, "Stock item not found", <<>>)
            /\ UNCHANGED inventory
       ELSE IF \E d \in stock_columns(
                       Updated(stock_update.total_thans,
                               inventory[stock_id].total_thans),
                       Updated(stock_update.meters_per_than,
                               inventory[stock_id].meters_per_than),
                       Updated(stock_update.cost_price_per_meter,
                               inventory[stock_id].cost_price_per_meter)) :
                  NumericOverflow(d)
       THEN /\ response' = Respond("update_stock", 500, "DataError", <<>>)
            /\ UNCHANGED inventory
       ELSE LET row == update_stock_row(inventory[stock_id], stock_update)
            IN  /\ inventory' = [inventory EXCEPT ![stock_id] = row]
                /\ response' = Respond("update_stock", 200, "", <<row>>)
    /\ sessions' = close(SessionLocal(sessions))
    /\ UNCHANGED <<sales_records, inventory_id_seq, requests>>

-----------------------------------------------------------------------------
(* DELETE /delete-stock/{stock_id}                                         *)

\* mutant: the count leaves out the shalwar link
LinkedTo_without_shalwar(sale, stock_id) ==
    \/ sale.inventory_id = Some(stock_id)
    \/ sale.kameez_inventory_id = Some(stock_id)

\* or_(inventory_id == stock_id, kameez_inventory_id == stock_id,
\*     shalwar_inventory_id == stock_id)
LinkedTo(sale, stock_id) ==
    \/ sale.inventory_id = Some(stock_id)
    \/ sale.kameez_inventory_id = Some(stock_id)
    \/ sale.shalwar_inventory_id = Some(stock_id)

sales_count(sales, stock_id) ==
    Len(SelectSeq(sales, LAMBDA sale : LinkedTo(sale, stock_id)))

\* the inventory table with row stock_id deleted
DeleteRow(inv, stock_id) == [id \in DOMAIN inv \ {stock_id} |-> inv[id]]

\* mutant: the lot is not looked up first
delete_stock_unchecked(stock_id) ==
    /\ IF sales_count(sales_records, stock_id) > 0
       THEN /\ response' = Respond("delete_stock", 400,
                                   "Cannot delete stock item", <<>>)
            /\ UNCHANGED inventory
       ELSE /\ inventory' = DeleteRow(inventory, stock_id)
            /\ response' = Respond("delete_stock", 200, "deleted successfully", <<>>)
    /\ sessions' = close(SessionLocal(sessions))
    /\ UNCHANGED <<sales_records, inventory_id_seq, requests>>

delete_stock(stock_id) ==
    /\ IF ~InventoryExists(inventory, stock_id)
       THEN /\ response' = Respond("delete_stock", 404,
                                   "Stock item with ID " \o ToString(stock_id)
                                      \o " not found", <<>>)
            /\ UNCHANGED inventory
       ELSE IF sales_count(sales_records, stock_id) > 0
       THEN /\ response' = Respond("delete_stock", 400,
                                   "Cannot delete stock item", <<>>)
            /\ UNCHANGED inventory
       ELSE /\ inventory' = DeleteRow(inventory, stock_id)
            /\ response' = Respond("delete_stock", 200, "deleted successfully", <<>>)
    /\ sessions' = close(SessionLocal(sessions))
    /\ UNCHANGED <<sales_records, inventory_id_seq, requests>>

-----------------------------------------------------------------------------
(* GET /get-inventory                                                      *)

\* Decimal(str(sale.kameez_meters)) if sale.kameez_meters is not None ...
kameez_m(sale) == sale.kameez_meters

shalwar_m(sale) == sale.shalwar_meters

both_m(sale) == DecAdd(kameez_m(sale), shalwar_m(sale))

\* the amounts a loop "for sale in sales" adds, in the order of the rows
kameez_meters_of(sales) == [i \in 1..Len(sales) |-> kameez_m(sales[i])]

shalwar_meters_of(sales) == [i \in 1..Len(sales) |-> shalwar_m(sales[i])]

both_meters_of(sales) == [i \in 1..Len(sales) |-> both_m(sales[i])]

\* mutant: the loop over the legacy-linked records adds the kameez cut only
sold_meters_of_kameez_only(sales, item_id) ==
    LET sales_old ==
            SelectSeq(sales, LAMBDA sale : sale.inventory_id = Some(item_id))
        sales_kameez ==
            SelectSeq(sales, LAMBDA sale : sale.kameez_inventory_id = Some(item_id))
        sales_shalwar ==
            SelectSeq(sales, LAMBDA sale : sale.shalwar_inventory_id = Some(item_id))
    IN  DecAdd(DecAdd(DecSum(kameez_meters_of(sales_old)),
                      DecSum(kameez_meters_of(sales_kameez))),
               DecSum(shalwar_meters_of(sales_shalwar)))

\* the three queries and the three loops of one inventory item
sold_meters_of(sales, item_id) ==
    LET sales_old ==
            SelectSeq(sales, LAMBDA sale : sale.inventory_id = Some(item_id))
        sales_kameez ==
            SelectSeq(sales, LAMBDA sale : sale.kameez_inventory_id = Some(item_id))
        sales_shalwar ==
            SelectSeq(sales, LAMBDA sale : sale.shalwar_inventory_id = Some(item_id))
    IN  DecAdd(DecAdd(DecSum(both_meters_of(sales_old)),
                      DecSum(kameez_meters_of(sales_kameez))),
               DecSum(shalwar_meters_of(sales_shalwar)))

InventoryStatus(item, sales) ==
    LET sold_meters == sold_meters_of(sales, item.id)
        remaining_meters == DecSub(item.total_meters, sold_meters)
        remaining_stock_value == DecMul(remaining_meters, item.cost_price_per_meter)
    IN  [id |-> item.id,
         company_name |-> item.company_name,
         design_code |-> item.design_code,
         total_thans |-> item.total_thans,
         meters_per_than |-> item.meters_per_than,
         total_meters |-> item.total_meters,
         cost_price_per_meter |-> item.cost_price_per_meter,
         total_stock_value |-> item.total_stock_value,
         sold_meters |-> sold_meters,
         remaining_meters |-> remaining_meters,
         remaining_stock_value |-> remaining_stock_value]

get_inventory_result(inv, sales) ==
    LET inventory_items == AllInventory(inv)
    IN  [i \in 1..Len(inventory_items) |-> InventoryStatus(inventory_items[i], sales)]

get_inventory ==
    /\ response' = Respond("get_inventory", 200, "",
                           get_inventory_result(inventory, sales_records))
    /\ sessions' = close(SessionLocal(sessions))
    /\ UNCHANGED <<inventory, sales_records, inventory_id_seq, requests>>

-----------------------------------------------------------------------------
(* float(...) of a Decimal                                                 *)

\* the decimal without its trailing fractional zeros
RECURSIVE Normalize(_)
Normalize(d) ==
    IF d.n = 0 THEN Decimal(0, 0)
    ELSE IF d.s > 0 /\ d.n % 10 = 0 THEN Normalize(Decimal(d.n \div 10, d.s - 1))
    ELSE d

\* float(d): the double nearest to d.  A decimal of at most 15 significant
\* digits and the double nearest to it determine each other, so the double
\* is written by the digits it prints with: 0.50 and 0.5 give the same one.
float(d) == Normalize(d)

-----------------------------------------------------------------------------
(* GET /get-inventory-simple                                               *)

\* the queries and loops of one inventory item, through db_temp
sold_meters_simple(sales, item_id) ==
    LET sales_old ==
            SelectSeq(sales, LAMBDA sale : sale.inventory_id = Some(item_id))
        sales_kameez ==
            SelectSeq(sales, LAMBDA sale : sale.kameez_inventory_id = Some(item_id))
        sales_shalwar ==
            SelectSeq(sales, LAMBDA sale : sale.shalwar_inventory_id = Some(item_id))
    IN  DecAdd(DecAdd(DecSum(both_meters_of(sales_old)),
                      DecSum(kameez_meters_of(sales_kameez))),
               DecSum(shalwar_meters_of(sales_shalwar)))

simple_entry(item, sales) ==
    [id |-> item.id,
     company_name |-> item.company_name,
     design_code |-> item.design_code,
     remaining_meters |->
        float(DecSub(item.total_meters, sold_meters_simple(sales, item.id)))]

\* mutant: items with nothing left are returned too
get_inventory_simple_result_with_sold_out(inv, sales) ==
    LET inventory_items == AllInventory(inv)
        entries == [i \in 1..Len(inventory_items) |->
                       simple_entry(inventory_items[i], sales)]
    IN  SelectSeq(entries, LAMBDA e : e.remaining_meters.n >= 0)

\* "if remaining_meters > 0:  # Only return items with stock"
get_inventory_simple_result(inv, sales) ==
    LET inventory_items == AllInventory(inv)
        entries == [i \in 1..Len(inventory_items) |->
                       simple_entry(inventory_items[i], sales)]
    IN  SelectSeq(entries, LAMBDA e : e.remaining_meters.n > 0)

\* db_temp = SessionLocal() ... db_temp.close(), once per item
RECURSIVE db_temp_sessions(_, _)
db_temp_sessions(open, items) ==
    IF items = 0 THEN open
    ELSE db_temp_sessions(close(SessionLocal(open)), items - 1)

get_inventory_simple ==
    /\ response' = Respond("get_inventory_simple", 200, "",
                           get_inventory_simple_result(inventory, sales_records))
    /\ sessions' = close(db_temp_sessions(SessionLocal(sessions),
                                          Cardinality(DOMAIN inventory)))
    /\ UNCHANGED <<inventory, sales_records, inventory_id_seq, requests>>

-----------------------------------------------------------------------------
(* GET /get-profit-loss                                                    *)

RECURSIVE GCD(_, _)
GCD(a, b) == IF b = 0 THEN a ELSE GCD(b, a % b)

\* a / b * 100 for b > 0, as the fraction in lowest terms.  Decimal division
\* rounds the quotient to 28 significant digits and float() takes the
\* nearest double: the response carries that approximation of the fraction.
Percentage(a, b) ==
    LET s == MaxScale(a, b)
        num == Rescale(a, s) * 100
        den == Rescale(b, s)
        g == GCD(IF num >= 0 THEN num ELSE 0 - num, den)
    IN  [num |-> num \div g, den |-> den \div g]

\* "... else 0"
ZeroPercent == [num |-> 0, den |-> 1]

\* mutant: a kameez-linked record brings the lot the revenue of the whole bill
profit_loss_totals_grand(item, sales) ==
    LET cost_of(m) == DecMul(m, item.cost_price_per_meter)
        sales_old ==
            SelectSeq(sales, LAMBDA sale : sale.inventory_id = Some(item.id))
        sales_kameez ==
            SelectSeq(sales, LAMBDA sale : sale.kameez_inventory_id = Some(item.id))
        sales_shalwar ==
            SelectSeq(sales, LAMBDA sale : sale.shalwar_inventory_id = Some(item.id))
        revenue_old == [i \in 1..Len(sales_old) |-> sales_old[i].grand_total]
        cost_old == [i \in 1..Len(sales_old) |-> cost_of(both_m(sales_old[i]))]
        revenue_kameez ==
            [i \in 1..Len(sales_kameez) |-> sales_kameez[i].grand_total]
        cost_kameez ==
            [i \in 1..Len(sales_kameez) |-> cost_of(kameez_m(sales_kameez[i]))]
        revenue_shalwar ==
            [i \in 1..Len(sales_shalwar) |->
                DecMul(shalwar_m(sales_shalwar[i]), sales_shalwar[i].shalwar_rate)]
        cost_shalwar ==
            [i \in 1..Len(sales_shalwar) |-> cost_of(shalwar_m(sales_shalwar[i]))]
    IN  [total_revenue |->
            DecSum(revenue_old \o revenue_kameez \o revenue_shalwar),
         total_cost |-> DecSum(cost_old \o cost_kameez \o cost_shalwar),
         total_meters_sold |->
            DecSum(both_meters_of(sales_old) \o kameez_meters_of(sales_kameez)
                   \o shalwar_meters_of(sales_shalwar))]

\* mutant: the loop over the legacy-linked records skips a record that is
\* also kameez-linked or shalwar-linked to the item
profit_loss_totals_skipping_split(item, sales) ==
    LET cost_of(m) == DecMul(m, item.cost_price_per_meter)
        sales_old ==
            SelectSeq(sales, LAMBDA sale :
                /\ sale.inventory_id = Some(item.id)
                /\ sale.kameez_inventory_id # Some(item.id)
                /\ sale.shalwar_inventory_id # Some(item.id))
        sales_kameez ==
            SelectSeq(sales, LAMBDA sale : sale.kameez_inventory_id = Some(item.id))
        sales_shalwar ==
            SelectSeq(sales, LAMBDA sale : sale.shalwar_inventory_id = Some(item.id))
        revenue_old == [i \in 1..Len(sales_old) |-> sales_old[i].grand_total]
        cost_old == [i \in 1..Len(sales_old) |-> cost_of(both_m(sales_old[i]))]
        revenue_kameez ==
            [i \in 1..Len(sales_kameez) |->
                DecMul(kameez_m(sales_kameez[i]), sales_kameez[i].kameez_rate)]
        cost_kameez ==
            [i \in 1..Len(sales_kameez) |-> cost_of(kameez_m(sales_kameez[i]))]
        revenue_shalwar ==
            [i \in 1..Len(sales_shalwar) |->
                DecMul(shalwar_m(sales_shalwar[i]), sales_shalwar[i].shalwar_rate)]
        cost_shalwar ==
            [i \in 1..Len(sales_shalwar) |-> cost_of(shalwar_m(sales_shalwar[i]))]
    IN  [total_revenue |->
            DecSum(revenue_old \o revenue_kameez \o revenue_shalwar),
         total_cost |-> DecSum(cost_old \o cost_kameez \o cost_shalwar),
         total_meters_sold |->
            DecSum(both_meters_of(sales_old) \o kameez_meters_of(sales_kameez)
                   \o shalwar_meters_of(sales_shalwar))]

\* what the three loops add up for one inventory item
profit_loss_totals(item, sales) ==
    LET cost_of(m) == DecMul(m, item.cost_price_per_meter)
        sales_old ==
            SelectSeq(sales, LAMBDA sale : sale.inventory_id = Some(item.id))
        sales_kameez ==
            SelectSeq(sales, LAMBDA sale : sale.kameez_inventory_id = Some(item.id))
        sales_shalwar ==
            SelectSeq(sales, LAMBDA sale : sale.shalwar_inventory_id = Some(item.id))
        revenue_old == [i \in 1..Len(sales_old) |-> sales_old[i].grand_total]
        cost_old == [i \in 1..Len(sales_old) |-> cost_of(both_m(sales_old[i]))]
        revenue_kameez ==
            [i \in 1..Len(sales_kameez) |->
                DecMul(kameez_m(sales_kameez[i]), sales_kameez[i].kameez_rate)]
        cost_kameez ==
            [i \in 1..Len(sales_kameez) |-> cost_of(kameez_m(sales_kameez[i]))]
        revenue_shalwar ==
            [i \in 1..Len(sales_shalwar) |->
                DecMul(shalwar_m(sales_shalwar[i]), sales_shalwar[i].shalwar_rate)]
        cost_shalwar ==
            [i \in 1..Len(sales_shalwar) |-> cost_of(shalwar_m(sales_shalwar[i]))]
    IN  [total_revenue |->
            DecSum(revenue_old \o revenue_kameez \o revenue_shalwar),
         total_cost |-> DecSum(cost_old \o cost_kameez \o cost_shalwar),
         total_meters_sold |->
            DecSum(both_meters_of(sales_old) \o kameez_meters_of(sales_kameez)
                   \o shalwar_meters_of(sales_shalwar))]

profit_loss_entry(item, sales) ==
    LET t == profit_loss_totals(item, sales)
        profit == DecSub(t.total_revenue, t.total_cost)
    IN  [company_name |-> item.company_name,
         design_code |-> item.design_code,
         meters_sold |-> float(t.total_meters_sold),
         cost_price_per_meter |-> float(item.cost_price_per_meter),
         total_cost |-> float(t.total_cost),
         total_revenue |-> float(t.total_revenue),
         profit |-> float(profit),
         profit_percentage |->
            IF DecGt(t.total_cost, Zero) THEN Percentage(profit, t.total_cost)
            ELSE ZeroPercent]

\* mutant: every item is reported
get_profit_loss_result_unfiltered(inv, sales) ==
    LET inventory_items == AllInventory(inv)
    IN  [i \in 1..Len(inventory_items) |->
            profit_loss_entry(inventory_items[i], sales)]

\* "if total_meters_sold > 0:  # Only include items with sales"
get_profit_loss_result(inv, sales) ==
    LET inventory_items == AllInventory(inv)
        with_sales ==
            SelectSeq(inventory_items, LAMBDA item :
                DecGt(profit_loss_totals(item, sales).total_meters_sold, Zero))
    IN  [i \in 1..Len(with_sales) |-> profit_loss_entry(with_sales[i], sales)]

get_profit_loss ==
    /\ response' = Respond("get_profit_loss", 200, "",
                           get_profit_loss_result(inventory, sales_records))
    /\ sessions' = close(SessionLocal(sessions))
    /\ UNCHANGED <<inventory, sales_records, inventory_id_seq, requests>>

-----------------------------------------------------------------------------
(* POST /create-bill: the stock-sufficiency validation                     *)

\* what one validation stage hands on: the HTTP status it ends the request
\* with (200: go on), and the labels it settled
Stage(status, detail, company_name, design_code) ==
    [status |-> status, detail |-> detail,
     company_name |-> company_name, design_code |-> design_code]

\* (kameez_inventory_id == id) | ((inventory_id == id) & kameez_inventory_id IS NULL)
sold_kameez_meters(sales, id) ==
    LET sales_kameez ==
            SelectSeq(sales, LAMBDA sale :
                \/ sale.kameez_inventory_id = Some(id)
                \/ (sale.inventory_id = Some(id) /\ sale.kameez_inventory_id = None))
    IN  DecSum(kameez_meters_of(sales_kameez))

\* (shalwar_inventory_id == id) | ((inventory_id == id) & shalwar_inventory_id IS NULL)
sold_shalwar_meters(sales, id) ==
    LET sales_shalwar ==
            SelectSeq(sales, LAMBDA sale :
                \/ sale.shalwar_inventory_id = Some(id)
                \/ (sale.inventory_id = Some(id) /\ sale.shalwar_inventory_id = None))
    IN  DecSum(shalwar_meters_of(sales_shalwar))

\* sales = query(SalesRecord).filter(SalesRecord.inventory_id == id)
sold_legacy_meters(sales, id) ==
    LET sales_old == SelectSeq(sales, LAMBDA sale : sale.inventory_id = Some(id))
    IN  DecSum(both_meters_of(sales_old))

remaining_kameez(inv, sales, id) ==
    DecSub(inv[id].total_meters, sold_kameez_meters(sales, id))

\* mutant: the shalwar check reads the kameez meters sold
remaining_shalwar_from_kameez(inv, sales, id) ==
    DecSub(inv[id].total_meters, sold_kameez_meters(sales, id))

remaining_shalwar(inv, sales, id) ==
    DecSub(inv[id].total_meters, sold_shalwar_meters(sales, id))

remaining_legacy(inv, sales, id) ==
    DecSub(inv[id].total_meters, sold_legacy_meters(sales, id))

\* "if bill.kameez_inventory_id:" ... the kameez labels
kameez_stage(bill, inv, sales) ==
    IF ~Truthy(bill.kameez_inventory_id)
    THEN Stage(200, "", bill.kameez_company_name, bill.kameez_design_code)
    ELSE LET id == Value(bill.kameez_inventory_id) IN
         IF ~InventoryExists(inv, id)
         THEN Stage(404, "Kameez inventory item not found", None, None)
         ELSE IF DecGt(bill.kameez_meters, remaining_kameez(inv, sales, id))
         THEN Stage(400, "Kameez: Insufficient stock", None, None)
         ELSE Stage(200, "",
                    Or(bill.kameez_company_name, Some(inv[id].company_name)),
                    Or(bill.kameez_design_code, Some(inv[id].design_code)))

\* "if bill.shalwar_inventory_id:" ... the shalwar labels
shalwar_stage(bill, inv, sales) ==
    IF ~Truthy(bill.shalwar_inventory_id)
    THEN Stage(200, "", bill.shalwar_company_name, bill.shalwar_design_code)
    ELSE LET id == Value(bill.shalwar_inventory_id) IN
         IF ~InventoryExists(inv, id)
         THEN Stage(404, "Shalwar inventory item not found", None, None)
         ELSE IF DecGt(bill.shalwar_meters, remaining_shalwar(inv, sales, id))
         THEN Stage(400, "Shalwar: Insufficient stock", None, None)
         ELSE Stage(200, "",
                    Or(bill.shalwar_company_name, Some(inv[id].company_name)),
                    Or(bill.shalwar_design_code, Some(inv[id].design_code)))

\* mutant: a bill that names no lot at all is refused
legacy_stage_requiring_lot(bill, inv, sales) ==
    IF /\ Truthy(bill.inventory_id)
       /\ ~Truthy(bill.kameez_inventory_id)
       /\ ~Truthy(bill.shalwar_inventory_id)
    THEN LET id == Value(bill.inventory_id)
             total_meters_needed == DecAdd(bill.kameez_meters, bill.shalwar_meters)
         IN  IF ~InventoryExists(inv, id)
             THEN Stage(404, "Inventory item not found", None, None)
             ELSE IF DecGt(total_meters_needed, remaining_legacy(inv, sales, id))
             THEN Stage(400, "Insufficient stock", None, None)
             ELSE Stage(200, "",
                        Or(bill.company_name, Some(inv[id].company_name)),
                        Or(bill.design_code, Some(inv[id].design_code)))
    ELSE IF /\ ~Truthy(bill.inventory_id)
            /\ ~Truthy(bill.kameez_inventory_id)
            /\ ~Truthy(bill.shalwar_inventory_id)
    THEN Stage(404, "Inventory item not found", None, None)
    ELSE Stage(200, "", bill.company_name, bill.design_code)

\* "if bill.inventory_id and not bill.kameez_inventory_id and not
\*  bill.shalwar_inventory_id:" ... else: the labels as given
legacy_stage(bill, inv, sales) ==
    IF /\ Truthy(bill.inventory_id)
       /\ ~Truthy(bill.kameez_inventory_id)
       /\ ~Truthy(bill.shalwar_inventory_id)
    THEN LET id == Value(bill.inventory_id)
             total_meters_needed == DecAdd(bill.kameez_meters, bill.shalwar_meters)
         IN  IF ~InventoryExists(inv, id)
             THEN Stage(404, "Inventory item not found", None, None)
             ELSE IF DecGt(total_meters_needed, remaining_legacy(inv, sales, id))
             THEN Stage(400, "Insufficient stock", None, None)
             ELSE Stage(200, "",
                        Or(bill.company_name, Some(inv[id].company_name)),
                        Or(bill.design_code, Some(inv[id].design_code)))
    ELSE Stage(200, "", bill.company_name, bill.design_code)

\* the three stages in the order the handler runs them; the first that
\* raises ends the request
validate_bill(bill, inv, sales) ==
    LET k == kameez_stage(bill, inv, sales)
        s == shalwar_stage(bill, inv, sales)
        l == legacy_stage(bill, inv, sales)
    IN  [status |-> IF k.status # 200 THEN k.status
                    ELSE IF s.status # 200 THEN s.status ELSE l.status,
         detail |-> IF k.status # 200 THEN k.detail
                    ELSE IF s.status # 200 THEN s.detail ELSE l.detail,
         kameez |-> k, shalwar |-> s, legacy |-> l]

-----------------------------------------------------------------------------
(* POST /create-bill: the sales record and its insertion                   *)

sales_record(bill, checked, id, now) ==
    LET kameez_total == DecMul(bill.kameez_meters, bill.kameez_rate)
        shalwar_total == DecMul(bill.shalwar_meters, bill.shalwar_rate)
        grand_total == DecAdd(kameez_total, shalwar_total)
    IN  [id |-> id,
         inventory_id |-> bill.inventory_id,
         kameez_inventory_id |-> bill.kameez_inventory_id,
         shalwar_inventory_id |-> bill.shalwar_inventory_id,
         company_name |-> checked.legacy.company_name,
         design_code |-> checked.legacy.design_code,
         kameez_company_name |-> checked.kameez.company_name,
         kameez_design_code |-> checked.kameez.design_code,
         shalwar_company_name |-> checked.shalwar.company_name,
         shalwar_design_code |-> checked.shalwar.design_code,
         kameez_meters |-> NumericColumn(bill.kameez_meters),
         kameez_rate |-> NumericColumn(bill.kameez_rate),
         kameez_total |-> NumericColumn(kameez_total),
         shalwar_meters |-> NumericColumn(bill.shalwar_meters),
         shalwar_rate |-> NumericColumn(bill.shalwar_rate),
         shalwar_total |-> NumericColumn(shalwar_total),
         grand_total |-> NumericColumn(grand_total),
         created_at |-> now]

\* a Numeric(10, 2) column of the record cannot hold its value: the INSERT
\* raises DataError ("numeric field overflow")
bill_overflows(bill) ==
    LET kameez_total == DecMul(bill.kameez_meters, bill.kameez_rate)
        shalwar_total == DecMul(bill.shalwar_meters, bill.shalwar_rate)
    IN  \/ NumericOverflow(bill.kameez_meters)
        \/ NumericOverflow(bill.kameez_rate)
        \/ NumericOverflow(kameez_total)
        \/ NumericOverflow(bill.shalwar_meters)
        \/ NumericOverflow(bill.shalwar_rate)
        \/ NumericOverflow(shalwar_total)
        \/ NumericOverflow(DecAdd(kameez_total, shalwar_total))

\* mutant: the link columns carry no foreign-key constraint
ForeignKeysHold_unenforced(inv, sale) == TRUE

\* ForeignKey("inventory.id") on the three link columns: PostgreSQL refuses
\* the INSERT of a row whose non-NULL link names no inventory row
ForeignKeysHold(inv, sale) ==
    /\ sale.inventory_id \subseteq DOMAIN inv
    /\ sale.kameez_inventory_id \subseteq DOMAIN inv
    /\ sale.shalwar_inventory_id \subseteq DOMAIN inv

\* mutant: the insertion runs the validation again on the tables as they
\* are at commit
insert_bill_revalidated(bill, checked) ==
    LET again == validate_bill(bill, inventory, sales_records)
        row == sales_record(bill, again, Len(sales_records) + 1, utcnow)
    IN  IF again.status # 200
        THEN /\ response' = Respond("create_bill", again.status, again.detail, <<>>)
             /\ UNCHANGED sales_records
        ELSE IF bill_overflows(bill)
        THEN /\ response' = Respond("create_bill", 500, "DataError", <<>>)
             /\ UNCHANGED sales_records
        ELSE IF ForeignKeysHold(inventory, row)
        THEN /\ sales_records' = Append(sales_records, row)
             /\ response' = Respond("create_bill", 200, "", <<row>>)
        ELSE /\ response' = Respond("create_bill", 500, "IntegrityError", <<>>)
             /\ UNCHANGED sales_records

\* db.add(sales_record); db.commit(); db.refresh(sales_record); a DataError
\* or an IntegrityError is caught by "except Exception" and becomes a 500
insert_bill(bill, checked) ==
    LET row == sales_record(bill, checked, Len(sales_records) + 1, utcnow)
    IN  IF bill_overflows(bill)
        THEN /\ response' = Respond("create_bill", 500, "DataError", <<>>)
             /\ UNCHANGED sales_records
        ELSE IF ForeignKeysHold(inventory, row)
        THEN /\ sales_records' = Append(sales_records, row)
             /\ response' = Respond("create_bill", 200, "", <<row>>)
        ELSE /\ response' = Respond("create_bill", 500, "IntegrityError", <<>>)
             /\ UNCHANGED sales_records

\* mutant: the record is added and committed before the stock checks, and
\* stays when a check fails
create_bill_committing_first(bill) ==
    /\ Len(sales_records) < MaxSales
    /\ \A w \in DOMAIN requests : requests[w] = None
    /\ LET checked == validate_bill(bill, inventory, sales_records)
           row == sales_record(bill, checked, Len(sales_records) + 1, utcnow)
       IN  IF checked.status = 400
           THEN /\ response' = Respond("create_bill", checked.status,
                                       checked.detail, <<>>)
                /\ sales_records' = Append(sales_records, row)
           ELSE IF checked.status # 200
           THEN /\ response' = Respond("create_bill", checked.status,
                                       checked.detail, <<>>)
                /\ UNCHANGED sales_records
           ELSE insert_bill(bill, checked)
    /\ sessions' = close(SessionLocal(sessions))
    /\ UNCHANGED <<inventory, inventory_id_seq, requests>>

\* one request handled with no other request in between
create_bill(bill) ==
    /\ Len(sales_records) < MaxSales
    /\ \A w \in DOMAIN requests : requests[w] = None
    /\ LET checked == validate_bill(bill, inventory, sales_records)
       IN  IF checked.status # 200
           THEN /\ response' = Respond("create_bill", checked.status,
                                       checked.detail, <<>>)
                /\ UNCHANGED sales_records
           ELSE insert_bill(bill, checked)
    /\ sessions' = close(SessionLocal(sessions))
    /\ UNCHANGED <<inventory, inventory_id_seq, requests>>

-----------------------------------------------------------------------------
(* POST /create-bill under concurrent requests: each worker thread runs    *)
(* the validation queries, and later the INSERT and commit; nothing keeps  *)
(* another request from committing in between.                             *)

begin_bill(w, bill) ==
    /\ requests[w] = None
    /\ LET checked == validate_bill(bill, inventory, sales_records)
       IN  IF checked.status # 200
           THEN /\ response' = Respond("create_bill", checked.status,
                                       checked.detail, <<>>)
                /\ sessions' = close(SessionLocal(sessions))
                /\ UNCHANGED requests
           ELSE /\ requests' = [requests EXCEPT
                                   ![w] = Some([bill |-> bill, checked |-> checked])]
                /\ sessions' = SessionLocal(sessions)
                /\ UNCHANGED response
    /\ UNCHANGED <<inventory, sales_records, inventory_id_seq>>

commit_bill(w) ==
    /\ requests[w] # None
    /\ Len(sales_records) < MaxSales
    /\ insert_bill(Value(requests[w]).bill, Value(requests[w]).checked)
    /\ requests' = [requests EXCEPT ![w] = None]
    /\ sessions' = close(sessions)
    /\ UNCHANGED <<inventory, inventory_id_seq>>

-----------------------------------------------------------------------------
(* The requests the model sends.                                           *)

StockCreate(company_name, design_code, total_thans, meters_per_than, cost_price_per_meter) ==
    [company_name |-> company_name, design_code |-> design_code,
     total_thans |-> total_thans, meters_per_than |-> meters_per_than,
     cost_price_per_meter |-> cost_price_per_meter]

StockCreateInputs ==
    { \* test_small_decimal_values: 0.01 thans of 0.5 m at 0.25
      StockCreate("Test Company", "D-105",
                  Decimal(1, 2), Decimal(5, 1), Decimal(25, 2)),
      \* 2.0 thans of 0.5 m at 1.5
      StockCreate("Gul Ahmed", "D-101",
                  Decimal(20, 1), Decimal(5, 1), Decimal(15, 1)) }

NoUpdate ==
    [company_name |-> None, design_code |-> None, total_thans |-> None,
     meters_per_than |-> None, cost_price_per_meter |-> None]

\* partial updates, one field each
StockUpdateInputs ==
    { [NoUpdate EXCEPT !.total_thans = Some(Decimal(20, 1))],
      [NoUpdate EXCEPT !.meters_per_than = Some(Decimal(5, 1))],
      [NoUpdate EXCEPT !.cost_price_per_meter = Some(Decimal(25, 2))] }

StockIds == 1..MaxLots

NoLabels ==
    [company_name |-> None, design_code |-> None,
     kameez_company_name |-> None, kameez_design_code |-> None,
     shalwar_company_name |-> None, shalwar_design_code |-> None]

GivenLabels ==
    [company_name |-> Some("Khaadi"), design_code |-> Some("K-1"),
     kameez_company_name |-> Some("Khaadi"), kameez_design_code |-> Some("K-2"),
     shalwar_company_name |-> Some("Khaadi"), shalwar_design_code |-> Some("K-3")]

kameez_rate == Decimal(15, 1)

shalwar_rate == Decimal(5, 1)

BillCreate(inventory_id, kameez_inventory_id, shalwar_inventory_id, kameez_meters, shalwar_meters, labels) ==
    [inventory_id |-> inventory_id,
     kameez_inventory_id |-> kameez_inventory_id,
     shalwar_inventory_id |-> shalwar_inventory_id,
     company_name |-> labels.company_name,
     design_code |-> labels.design_code,
     kameez_company_name |-> labels.kameez_company_name,
     kameez_design_code |-> labels.kameez_design_code,
     shalwar_company_name |-> labels.shalwar_company_name,
     shalwar_design_code |-> labels.shalwar_design_code,
     kameez_meters |-> kameez_meters,
     kameez_rate |-> kameez_rate,
     shalwar_meters |-> shalwar_meters,
     shalwar_rate |-> shalwar_rate]

LinkIds == {None} \cup {Some(id) : id \in StockIds}

BillCreateInputs ==
    \* the combinations of the three link fields, 0.5 m kameez and 0.25 m shalwar
    { BillCreate(i, k, s, Decimal(5, 1), Decimal(25, 2), NoLabels) :
        i \in {None, Some(1)}, k \in LinkIds, s \in {None, Some(1)} }
    \cup
    \* a fraction of a centimetre; one cut only; a whole lot
    { BillCreate(None, Some(1), None, Decimal(5, 3), Decimal(0, 1), NoLabels),
      BillCreate(None, Some(1), None, Decimal(10, 1), Decimal(0, 1), NoLabels),
      BillCreate(None, None, Some(1), Decimal(0, 1), Decimal(10, 1), NoLabels),
      BillCreate(Some(1), None, None, Decimal(5, 1), Decimal(5, 1), NoLabels) }
    \cup
    \* an id of 0; a legacy id of another lot beside a split id
    { BillCreate(None, Some(0), None, Decimal(5, 1), Decimal(25, 2), NoLabels),
      BillCreate(Some(2), Some(1), None, Decimal(5, 3), Decimal(0, 1), NoLabels) }
    \cup
    \* labels given by the caller
    { BillCreate(None, None, None, Decimal(5, 1), Decimal(25, 2), GivenLabels),
      BillCreate(None, Some(2), Some(1), Decimal(5, 1), Decimal(25, 2), GivenLabels) }

-----------------------------------------------------------------------------
(* Requests handled one at a time.                                         *)

Next ==
    \/ \E stock \in StockCreateInputs : add_stock(stock)
    \/ \E stock_id \in StockIds, stock_update \in StockUpdateInputs :
          update_stock(stock_id, stock_update)
    \/ \E stock_id \in StockIds : delete_stock(stock_id)
    \/ get_inventory
    \/ get_inventory_simple
    \/ get_profit_loss
    \/ \E bill \in BillCreateInputs : create_bill(bill)

Spec == Init /\ [][Next]_vars

-----------------------------------------------------------------------------
(* Requests handled by concurrent worker threads: a create-bill request    *)
(* validates and commits in two steps, any other request may run between.  *)

Workers == 1..MaxWorkers

ConcurrentBillInputs ==
    { BillCreate(None, Some(1), None, Decimal(10, 1), Decimal(0, 1), NoLabels),
      BillCreate(None, Some(1), None, Decimal(5, 1), Decimal(25, 2), NoLabels),
      BillCreate(None, None, Some(1), Decimal(0, 1), Decimal(10, 1), NoLabels),
      BillCreate(Some(1), None, None, Decimal(5, 1), Decimal(5, 1), NoLabels) }

\* the lot the concurrent bills draw on
ConcurrentStockInputs ==
    { StockCreate("Gul Ahmed", "D-101",
                  Decimal(20, 1), Decimal(5, 1), Decimal(15, 1)) }

NextConcurrent ==
    \/ \E stock \in ConcurrentStockInputs : add_stock(stock)
    \/ \E stock_id \in StockIds, stock_update \in StockUpdateInputs :
          update_stock(stock_id, stock_update)
    \/ \E stock_id \in StockIds : delete_stock(stock_id)
    \/ get_inventory
    \/ \E w \in Workers, bill \in ConcurrentBillInputs : begin_bill(w, bill)
    \/ \E w \in Workers : commit_bill(w)

SpecConcurrent == Init /\ [][NextConcurrent]_vars

-----------------------------------------------------------------------------
(* Requests handled one at a time, some with figures the Numeric(10, 2)    *)
(* columns cannot hold: the commit raises and the handler's "except        *)
(* Exception" path runs.                                                   *)

\* total_thans = 1e16: str(1e16) is '1e+16', the Decimal 1E+16
OverflowingStock ==
    StockCreate("Gul Ahmed", "D-101", Decimal(1, 0 - 16), Decimal(5, 1), Decimal(15, 1))

OverflowingUpdate == [NoUpdate EXCEPT !.total_thans = Some(Decimal(1, 0 - 16))]

NextSessions ==
    \/ \E stock \in ConcurrentStockInputs \cup {OverflowingStock} : add_stock(stock)
    \/ \E stock_id \in StockIds,
          stock_update \in StockUpdateInputs \cup {OverflowingUpdate} :
          update_stock(stock_id, stock_update)
    \/ \E stock_id \in StockIds : delete_stock(stock_id)
    \/ get_inventory
    \/ get_inventory_simple
    \/ get_profit_loss
    \/ \E bill \in ConcurrentBillInputs : create_bill(bill)

SpecSessions == Init /\ [][NextSessions]_vars

-----------------------------------------------------------------------------
(* Requests handled one at a time, lots edited after they were sold from:  *)
(* updates of a lot's labels beside updates of its figures.                *)

EditUpdateInputs ==
    StockUpdateInputs
    \cup { [NoUpdate EXCEPT !.company_name = Some("Khaadi")],
           [NoUpdate EXCEPT !.design_code = Some("K-1"),
                            !.cost_price_per_meter = Some(Decimal(25, 2))] }

NextEdits ==
    \/ \E stock \in ConcurrentStockInputs : add_stock(stock)
    \/ \E stock_id \in StockIds, stock_update \in EditUpdateInputs :
          update_stock(stock_id, stock_update)
    \/ \E stock_id \in StockIds : delete_stock(stock_id)
    \/ get_inventory
    \/ get_inventory_simple
    \/ get_profit_loss
    \/ \E bill \in ConcurrentBillInputs : create_bill(bill)

SpecEdits == Init /\ [][NextEdits]_vars

-----------------------------------------------------------------------------
(* Requests handled one at a time, with a lot that cost nothing among the  *)
(* lots sold from.                                                         *)

ReportStockInputs ==
    ConcurrentStockInputs
    \cup { StockCreate("Sample", "S-0", Decimal(20, 1), Decimal(5, 1), Decimal(0, 1)) }

ReportBillInputs ==
    ConcurrentBillInputs
    \cup { BillCreate(Some(1), Some(1), Some(2), Decimal(5, 1), Decimal(25, 2), NoLabels) }

NextReports ==
    \/ \E stock \in ReportStockInputs : add_stock(stock)
    \/ \E stock_id \in StockIds, stock_update \in StockUpdateInputs :
          update_stock(stock_id, stock_update)
    \/ \E stock_id \in StockIds : delete_stock(stock_id)
    \/ get_inventory
    \/ get_inventory_simple
    \/ get_profit_loss
    \/ \E bill \in ReportBillInputs : create_bill(bill)

SpecReports == Init /\ [][NextReports]_vars

-----------------------------------------------------------------------------
(* add-stock and create-bill requests only, one at a time, and the         *)
(* inventory listing.                                                      *)

NextSales ==
    \/ \E stock \in StockCreateInputs : add_stock(stock)
    \/ get_inventory
    \/ \E bill \in BillCreateInputs : create_bill(bill)

SpecSales == Init /\ [][NextSales]_vars

-----------------------------------------------------------------------------
(* Bills that name no lot, beside bills that do.                           *)

\* no link; more meters than any lot holds; more than a column holds (1e16)
UnlinkedBillInputs ==
    { BillCreate(None, None, None, Decimal(5, 1), Decimal(25, 2), NoLabels),
      BillCreate(None, None, None, Decimal(100, 1), Decimal(100, 1), GivenLabels),
      BillCreate(None, None, None, Decimal(1, 0 - 16), Decimal(0, 1), GivenLabels) }

NextUnlinked ==
    \/ \E stock \in StockCreateInputs : add_stock(stock)
    \/ get_inventory
    \/ \E bill \in UnlinkedBillInputs \cup ConcurrentBillInputs : create_bill(bill)

SpecUnlinked == Init /\ [][NextUnlinked]_vars

-----------------------------------------------------------------------------
(* What the claims are stated in: values as integers (millionths), sums    *)
(* over sets of sales records.                                             *)

Units(d) == d.n * Pow10(6 - d.s)

\* two decimals are the same number
DecEq(a, b) ==
    LET s == MaxScale(a, b) IN Rescale(a, s) = Rescale(b, s)

RECURSIVE Total(_, _)
\* the sum of w[i] over the indices i of S
Total(w, S) ==
    IF S = {} THEN 0
    ELSE LET i == CHOOSE j \in S : TRUE IN w[i] + Total(w, S \ {i})

Sales == DOMAIN sales_records

KameezUnits == [i \in Sales |-> Units(sales_records[i].kameez_meters)]

ShalwarUnits == [i \in Sales |-> Units(sales_records[i].shalwar_meters)]

BothUnits == [i \in Sales |-> KameezUnits[i] + ShalwarUnits[i]]

\* sales records linked to lot L through each of the three link fields
LegacyLinked(L) == {i \in Sales : sales_records[i].inventory_id = Some(L)}

KameezLinked(L) == {i \in Sales : sales_records[i].kameez_inventory_id = Some(L)}

ShalwarLinked(L) == {i \in Sales : sales_records[i].shalwar_inventory_id = Some(L)}

Lots == DOMAIN inventory

\* the kameez meters left on lot L: total_meters less the kameez meters of
\* the records kameez-linked to L or legacy-linked to L with no kameez link
KameezLeft(L) ==
    Units(inventory[L].total_meters)
    - Total(KameezUnits,
            KameezLinked(L) \cup
            {i \in LegacyLinked(L) : sales_records[i].kameez_inventory_id = None})

ShalwarLeft(L) ==
    Units(inventory[L].total_meters)
    - Total(ShalwarUnits,
            ShalwarLinked(L) \cup
            {i \in LegacyLinked(L) : sales_records[i].shalwar_inventory_id = None})

\* a request names lot L for a cut: a split id that is an id (not None, not 0)
NamesKameezLot(bill, L) == bill.kameez_inventory_id = Some(L) /\ L # 0

NamesShalwarLot(bill, L) == bill.shalwar_inventory_id = Some(L) /\ L # 0

KameezExceeds(bill) ==
    \E L \in Lots : /\ NamesKameezLot(bill, L)
                    /\ Units(bill.kameez_meters) > KameezLeft(L)

ShalwarExceeds(bill) ==
    \E L \in Lots : /\ NamesShalwarLot(bill, L)
                    /\ Units(bill.shalwar_meters) > ShalwarLeft(L)

InsufficientStock(r) ==
    /\ r.op = "create_bill"
    /\ r.status = 400
    /\ r.detail \in {"Kameez: Insufficient stock", "Shalwar: Insufficient stock",
                     "Insufficient stock"}

NotFound(r) == r.op = "create_bill" /\ r.status = 404

\* this step is create-bill handling the request bill
Handles(bill) == response'.op = "create_bill" /\ create_bill(bill)

\* C1 as stated: a create-bill whose kameez or shalwar cut names a lot and
\* asks for more than that cut's remaining meters fails with an
\* insufficient-stock error and inserts no sales record.
C1_AsStated ==
    [][\A bill \in BillCreateInputs :
          (Handles(bill) /\ (KameezExceeds(bill) \/ ShalwarExceeds(bill)))
          => (InsufficientStock(response') /\ sales_records' = sales_records)]_vars

\* the request's kameez_inventory_id names a lot that does not exist
KameezLotMissing(bill) ==
    Truthy(bill.kameez_inventory_id) /\ ~(bill.kameez_inventory_id \subseteq Lots)

KameezFits(bill) ==
    \/ ~Truthy(bill.kameez_inventory_id)
    \/ \E L \in Lots : /\ NamesKameezLot(bill, L)
                       /\ Units(bill.kameez_meters) <= KameezLeft(L)

ShalwarFits(bill) ==
    \/ ~Truthy(bill.shalwar_inventory_id)
    \/ \E L \in Lots : /\ NamesShalwarLot(bill, L)
                       /\ Units(bill.shalwar_meters) <= ShalwarLeft(L)

\* a cut of the request asks for exactly what is left of it on its lot
AsksAllLeft(bill) ==
    \/ \E L \in Lots : /\ NamesKameezLot(bill, L)
                       /\ Units(bill.kameez_meters) = KameezLeft(L)
    \/ \E L \in Lots : /\ NamesShalwarLot(bill, L)
                       /\ Units(bill.shalwar_meters) = ShalwarLeft(L)

\* every id the request gives is the id of a lot
LinksExist(bill) ==
    /\ bill.inventory_id \subseteq Lots
    /\ bill.kameez_inventory_id \subseteq Lots
    /\ bill.shalwar_inventory_id \subseteq Lots

Inserted ==
    /\ response'.op = "create_bill"
    /\ response'.status = 200
    /\ Len(sales_records') = Len(sales_records) + 1
    /\ SubSeq(sales_records', 1, Len(sales_records)) = sales_records

\* C1, amended: a cut that asks for more than is left of it makes the
\* request fail without a sales record; the error is the kameez
\* insufficient-stock error for a kameez excess, and for a shalwar excess an
\* insufficient-stock error unless the kameez lot is missing (then not-found
\* comes first); a request for exactly what is left is accepted when nothing
\* else in it fails.
C1_Amended ==
    [][\A bill \in BillCreateInputs : Handles(bill) =>
          /\ KameezExceeds(bill) =>
                /\ InsufficientStock(response')
                /\ response'.detail = "Kameez: Insufficient stock"
                /\ sales_records' = sales_records
          /\ ShalwarExceeds(bill) =>
                /\ sales_records' = sales_records
                /\ IF KameezLotMissing(bill) THEN NotFound(response')
                   ELSE InsufficientStock(response')
                /\ KameezFits(bill) =>
                      response'.detail = "Shalwar: Insufficient stock"
          /\ (AsksAllLeft(bill) /\ KameezFits(bill) /\ ShalwarFits(bill)
                /\ LinksExist(bill)) => Inserted]_vars

\* a shalwar cut was refused on a lot part of which earlier records took
C1_Witness ==
    /\ InsufficientStock(response)
    /\ response.detail = "Shalwar: Insufficient stock"
    /\ \E L \in Lots : /\ ShalwarLeft(L) > 0
                       /\ ShalwarLeft(L) < Units(inventory[L].total_meters)

-----------------------------------------------------------------------------
\* the remaining_meters get-inventory reports for lot L, given the tables
Reported(inv, sales, L) ==
    LET result == get_inventory_result(inv, sales)
        j == CHOOSE k \in DOMAIN result : result[k].id = L
    IN  Units(result[j].remaining_meters)

\* the meters a request asks of lot L: the kameez cut if kameez-linked, the
\* shalwar cut if shalwar-linked, both cuts if legacy-linked
Requested(bill, L) ==
    (IF bill.kameez_inventory_id = Some(L) THEN Units(bill.kameez_meters) ELSE 0)
    + (IF bill.shalwar_inventory_id = Some(L) THEN Units(bill.shalwar_meters) ELSE 0)
    + (IF bill.inventory_id = Some(L)
       THEN Units(bill.kameez_meters) + Units(bill.shalwar_meters) ELSE 0)

\* C2 as stated: a successful create-bill lowers the remaining_meters that
\* get-inventory reports for every lot it references by exactly the meters
\* requested of that lot.
C2_AsStated ==
    [][\A bill \in BillCreateInputs :
          (Handles(bill) /\ response'.status = 200) =>
             \A L \in Lots :
                Reported(inventory, sales_records, L)
                - Reported(inventory', sales_records', L) = Requested(bill, L)]_vars

-----------------------------------------------------------------------------
\* this step is worker w committing the request it validated earlier
Commits(w) == requests[w] # None /\ requests'[w] = None /\ commit_bill(w)

\* C3: a create-bill request that passed its sufficiency check is inserted
\* when it commits, whatever other requests committed since the check: two
\* requests on one lot that both checked before either inserted both succeed
\* and can oversell the lot.
C3_CommitsUnchecked ==
    [][\A w \in Workers :
          (Commits(w) /\ LinksExist(Value(requests[w]).bill)) => Inserted]_vars

\* two accepted kameez cuts of one lot: together more than the lot holds,
\* each alone within it, and the second refused had it been checked after
\* the first was inserted
C3_Oversold ==
    /\ Len(sales_records) = 2
    /\ response.op = "create_bill" /\ response.status = 200
    /\ \E L \in Lots :
          /\ KameezLinked(L) = {1, 2}
          /\ LegacyLinked(L) = {} /\ ShalwarLinked(L) = {}
          /\ KameezUnits[1] + KameezUnits[2] > Units(inventory[L].total_meters)
          /\ validate_bill(sales_records[1], inventory, << >>).status = 200
          /\ validate_bill(sales_records[2], inventory, << >>).status = 200
          /\ validate_bill(sales_records[2], inventory,
                           <<sales_records[1]>>).status = 400

-----------------------------------------------------------------------------
\* C4 as stated: no sales record is both legacy-linked and split-linked.
C4_AsStated ==
    \A i \in Sales :
       ~ /\ sales_records[i].inventory_id # None
         /\ \/ sales_records[i].kameez_inventory_id # None
            \/ sales_records[i].shalwar_inventory_id # None

-----------------------------------------------------------------------------
\* the request gives, in one of its three link fields, an id that is the id
\* of no lot
ReferencesMissingLot(bill) ==
    \/ Truthy(bill.inventory_id) /\ ~(bill.inventory_id \subseteq Lots)
    \/ Truthy(bill.kameez_inventory_id) /\ ~(bill.kameez_inventory_id \subseteq Lots)
    \/ Truthy(bill.shalwar_inventory_id) /\ ~(bill.shalwar_inventory_id \subseteq Lots)

\* C5 as stated: a create-bill that references a lot that does not exist,
\* through any of its three link fields, fails with a not-found error and
\* inserts no sales record.
C5_AsStated ==
    [][\A bill \in BillCreateInputs :
          (Handles(bill) /\ ReferencesMissingLot(bill))
          => (NotFound(response') /\ sales_records' = sales_records)]_vars

-----------------------------------------------------------------------------
\* some sales record references lot L through one of the three link fields
Referenced(L) == LegacyLinked(L) \cup KameezLinked(L) \cup ShalwarLinked(L) # {}

\* this step is delete-stock handling the id stock_id
Deletes(stock_id) == response'.op = "delete_stock" /\ delete_stock(stock_id)

\* C6: delete-stock of an existing lot that a sales record references fails
\* with a conflict and leaves the lot in place; of an existing lot that no
\* sales record references it removes that lot and nothing else.
C6_DeleteStock ==
    [][\A L \in Lots : Deletes(L) =>
          /\ sales_records' = sales_records
          /\ IF Referenced(L)
             THEN /\ response'.status = 400
                  /\ inventory' = inventory
             ELSE /\ response'.status = 200
                  /\ DOMAIN inventory' = Lots \ {L}
                  /\ \A K \in Lots \ {L} : inventory'[K] = inventory[K]]_vars

\* the deletion of the only lot was refused, the lot being referenced
\* through shalwar_inventory_id alone
C6_Refused ==
    /\ response.op = "delete_stock" /\ response.status = 400
    /\ \E L \in Lots :
          /\ Lots = {L}
          /\ ShalwarLinked(L) # {}
          /\ KameezLinked(L) = {} /\ LegacyLinked(L) = {}

-----------------------------------------------------------------------------
\* C7 as stated: every lot has total_meters = total_thans * meters_per_than
\* and total_stock_value = total_meters * cost_price_per_meter.
C7_AsStated ==
    \A L \in Lots :
       /\ DecEq(inventory[L].total_meters,
                DecMul(inventory[L].total_thans, inventory[L].meters_per_than))
       /\ DecEq(inventory[L].total_stock_value,
                DecMul(inventory[L].total_meters, inventory[L].cost_price_per_meter))

-----------------------------------------------------------------------------
\* C8 as stated: the lot add-stock returns and persists has total_meters
\* exactly total_thans * meters_per_than and total_stock_value exactly that
\* product times cost_price_per_meter, for the inputs of the request.
C8_AsStated ==
    [][\A stock \in StockCreateInputs :
          (response'.op = "add_stock" /\ add_stock(stock)) =>
             LET meters == DecMul(stock.total_thans, stock.meters_per_than)
                 value == DecMul(meters, stock.cost_price_per_meter)
                 lot == inventory'[inventory_id_seq']
             IN  /\ response'.body = <<lot>>
                 /\ DecEq(lot.total_meters, meters)
                 /\ DecEq(lot.total_stock_value, value)]_vars

-----------------------------------------------------------------------------
\* hundredths of a value the tables hold
Cents(d) == Rescale(d, Scale)

\* the meters sold of lot L, as the claim sums them
SoldUnits(L) ==
    Total(BothUnits, LegacyLinked(L)) + Total(KameezUnits, KameezLinked(L))
    + Total(ShalwarUnits, ShalwarLinked(L))

\* C9: get-inventory reports every lot once, with sold_meters the combined
\* meters of the records legacy-linked to it plus the kameez meters of the
\* records kameez-linked to it plus the shalwar meters of the records
\* shalwar-linked to it, remaining_meters = total_meters - sold_meters and
\* remaining_stock_value = remaining_meters * cost_price_per_meter.
C9_InventoryStatus ==
    response.op = "get_inventory" =>
       /\ Len(response.body) = Cardinality(Lots)
       /\ \A L \in Lots : \E j \in DOMAIN response.body :
             LET e == response.body[j]
                 left == Units(inventory[L].total_meters) - SoldUnits(L)
             IN  /\ e.id = L
                 /\ e.total_meters = inventory[L].total_meters
                 /\ Units(e.sold_meters) = SoldUnits(L)
                 /\ Units(e.remaining_meters) = left
                 /\ Units(e.remaining_stock_value)
                       = (left \div 10000) * Cents(inventory[L].cost_price_per_meter) * 100

\* get-inventory answered for a lot sold through all three link fields
C9_Witness ==
    /\ response.op = "get_inventory"
    /\ \E L \in Lots :
          /\ LegacyLinked(L) # {} /\ KameezLinked(L) # {} /\ ShalwarLinked(L) # {}
          /\ Cardinality(LegacyLinked(L) \cup KameezLinked(L) \cup ShalwarLinked(L)) = 2
          /\ SoldUnits(L) > 0

-----------------------------------------------------------------------------
\* the request gives a legacy inventory_id and no split id
LegacyOnly(bill) ==
    /\ Truthy(bill.inventory_id)
    /\ bill.kameez_inventory_id = None
    /\ bill.shalwar_inventory_id = None

\* the meters left on lot L after the legacy-only sales of it: the records
\* legacy-linked to L that carry no split id
LegacyLeft(L) ==
    Units(inventory[L].total_meters)
    - Total(BothUnits,
            {i \in LegacyLinked(L) :
                /\ sales_records[i].kameez_inventory_id = None
                /\ sales_records[i].shalwar_inventory_id = None})

\* C10 as stated: a create-bill with only a legacy inventory_id of a lot
\* fails with insufficient-stock when kameez_meters + shalwar_meters exceeds
\* the lot's total_meters less the combined meters of its legacy-only sales,
\* and otherwise inserts the record.
C10_AsStated ==
    [][\A bill \in BillCreateInputs, L \in Lots :
          (Handles(bill) /\ LegacyOnly(bill) /\ bill.inventory_id = Some(L)) =>
             IF Units(bill.kameez_meters) + Units(bill.shalwar_meters) > LegacyLeft(L)
             THEN InsufficientStock(response') /\ sales_records' = sales_records
             ELSE Inserted]_vars

-----------------------------------------------------------------------------
\* C11 as stated: a successful create-bill returns the one sales record it
\* inserted, and every sales record has kameez_total = kameez_meters *
\* kameez_rate, shalwar_total = shalwar_meters * shalwar_rate and
\* grand_total = kameez_total + shalwar_total.
C11_AsStated ==
    /\ (response.op = "create_bill" /\ response.status = 200) =>
          /\ Sales # {}
          /\ response.body = <<sales_records[Len(sales_records)]>>
    /\ \A i \in Sales :
          LET sale == sales_records[i]
          IN  /\ DecEq(sale.kameez_total,
                       DecMul(sale.kameez_meters, sale.kameez_rate))
              /\ DecEq(sale.shalwar_total,
                       DecMul(sale.shalwar_meters, sale.shalwar_rate))
              /\ DecEq(sale.grand_total,
                       DecAdd(sale.kameez_total, sale.shalwar_total))

-----------------------------------------------------------------------------
\* C12 as stated: after any sequence of completed requests no database
\* session is left open.
C12_AsStated == sessions = 0

-----------------------------------------------------------------------------
\* C13: no step changes or removes an existing sales record; in particular
\* update-stock changing a lot's labels leaves the labels copied onto the
\* sales records that reference the lot as they were.
C13_SalesImmutable ==
    [][\A i \in Sales :
          /\ i \in DOMAIN sales_records'
          /\ sales_records'[i] = sales_records[i]]_vars

\* update-stock has renamed a lot, and a sales record kameez-linked to it
\* still carries the name copied from the lot when the bill was created
C13_Witness ==
    /\ response.op = "update_stock" /\ response.status = 200
    /\ \E L \in Lots, i \in Sales :
          /\ i \in KameezLinked(L)
          /\ inventory[L].company_name = "Khaadi"
          /\ sales_records[i].kameez_company_name = Some("Gul Ahmed")

-----------------------------------------------------------------------------
\* this step is update-stock handling stock_update for the id stock_id
Updates(stock_id, stock_update) ==
    response'.op = "update_stock" /\ update_stock(stock_id, stock_update)

RequestFields ==
    {"company_name", "design_code", "total_thans", "meters_per_than",
     "cost_price_per_meter"}

\* C14: update-stock of an existing lot leaves every field absent from the
\* request, the lot's id and its created_at as they were, gives the label
\* fields present the values of the request, and changes no other lot.
C14_UpdateFrame ==
    [][\A L \in Lots, stock_update \in EditUpdateInputs :
          Updates(L, stock_update) =>
             /\ response'.status = 200
             /\ DOMAIN inventory' = Lots
             /\ \A K \in Lots \ {L} : inventory'[K] = inventory[K]
             /\ inventory'[L].id = inventory[L].id
             /\ inventory'[L].created_at = inventory[L].created_at
             /\ \A f \in RequestFields :
                   stock_update[f] = None => inventory'[L][f] = inventory[L][f]
             /\ \A f \in {"company_name", "design_code"} :
                   stock_update[f] # None => Some(inventory'[L][f]) = stock_update[f]]_vars

\* update-stock gave a lot a new design_code and cost and kept its name and
\* its thans
C14_Witness ==
    /\ response.op = "update_stock" /\ response.status = 200
    /\ \E L \in Lots :
          /\ inventory[L].design_code = "K-1"
          /\ inventory[L].company_name = "Gul Ahmed"
          /\ inventory[L].total_thans = Decimal(200, 2)
          /\ inventory[L].cost_price_per_meter = Decimal(25, 2)
          /\ inventory[L].total_stock_value = Decimal(25, 2)

-----------------------------------------------------------------------------
\* C15: update-stock and delete-stock addressed to an id that is the id of
\* no lot fail with a not-found error and leave both tables unchanged.
C15_NotFound ==
    [][\A stock_id \in StockIds \ Lots :
          /\ \A stock_update \in StockUpdateInputs :
                Updates(stock_id, stock_update) =>
                   /\ response'.status = 404
                   /\ inventory' = inventory /\ sales_records' = sales_records
          /\ Deletes(stock_id) =>
                /\ response'.status = 404
                /\ inventory' = inventory /\ sales_records' = sales_records]_vars

\* a request for an id that names no lot was refused while a lot and a
\* sales record exist
C15_Witness ==
    /\ response.op \in {"update_stock", "delete_stock"}
    /\ response.status = 404
    /\ Lots # {} /\ Sales # {}

-----------------------------------------------------------------------------
\* revenue and cost of lot L as the claim sums them, in millionths
KameezRevenue == [i \in Sales |->
    Cents(sales_records[i].kameez_meters) * Cents(sales_records[i].kameez_rate) * 100]

ShalwarRevenue == [i \in Sales |->
    Cents(sales_records[i].shalwar_meters) * Cents(sales_records[i].shalwar_rate) * 100]

GrandTotals == [i \in Sales |-> Units(sales_records[i].grand_total)]

RevenueUnits(L) ==
    Total(GrandTotals, LegacyLinked(L)) + Total(KameezRevenue, KameezLinked(L))
    + Total(ShalwarRevenue, ShalwarLinked(L))

CostUnits(L) ==
    (SoldUnits(L) \div 10000) * Cents(inventory[L].cost_price_per_meter) * 100

\* entry e of the report is the entry of lot L
EntryOf(e, L) ==
    /\ e.company_name = inventory[L].company_name
    /\ e.design_code = inventory[L].design_code
    /\ Units(e.meters_sold) = SoldUnits(L)
    /\ Units(e.cost_price_per_meter) = Units(inventory[L].cost_price_per_meter)

\* C16: in get-profit-loss the total_revenue of a lot is the stored
\* grand_total of the records legacy-linked to it plus kameez_meters *
\* kameez_rate of the records kameez-linked to it plus shalwar_meters *
\* shalwar_rate of the records shalwar-linked to it, and its total_cost is
\* the meters of those records (both cuts, kameez, shalwar) times the lot's
\* cost_price_per_meter.
C16_RevenueAndCost ==
    response.op = "get_profit_loss" =>
       \A L \in Lots : SoldUnits(L) > 0 =>
          \E j \in DOMAIN response.body :
             /\ EntryOf(response.body[j], L)
             /\ Units(response.body[j].total_revenue) = RevenueUnits(L)
             /\ Units(response.body[j].total_cost) = CostUnits(L)

\* the report was made of a lot sold through all three link fields
C16_Witness ==
    /\ response.op = "get_profit_loss"
    /\ \E L \in Lots :
          /\ LegacyLinked(L) # {} /\ KameezLinked(L) # {} /\ ShalwarLinked(L) # {}
          /\ Cardinality(LegacyLinked(L) \cup KameezLinked(L) \cup ShalwarLinked(L)) = 2
          /\ RevenueUnits(L) > CostUnits(L)

-----------------------------------------------------------------------------
\* C17: get-profit-loss has an entry for a lot exactly when meters of the
\* lot were sold; every entry has profit = total_revenue - total_cost, and
\* profit_percentage = profit / total_cost * 100 when total_cost > 0, 0
\* when total_cost = 0.
C17_ProfitEntries ==
    response.op = "get_profit_loss" =>
       /\ Len(response.body) = Cardinality({L \in Lots : SoldUnits(L) > 0})
       /\ \A L \in Lots : SoldUnits(L) > 0 =>
             \E j \in DOMAIN response.body : EntryOf(response.body[j], L)
       /\ \A j \in DOMAIN response.body :
             LET e == response.body[j]
                 profit == Units(e.profit) \div 100
                 cost == Units(e.total_cost) \div 100
                 pp == e.profit_percentage
             IN  /\ Units(e.profit) = Units(e.total_revenue) - Units(e.total_cost)
                 /\ IF cost > 0
                    THEN /\ pp.den > 0 /\ cost % pp.den = 0
                         /\ pp.num * (cost \div pp.den) = profit * 100
                    ELSE pp.num = 0

\* the report lists a lot sold at a profit and a lot that cost nothing, and
\* omits no lot that was sold from
C17_Witness ==
    /\ response.op = "get_profit_loss"
    /\ Len(response.body) = 2
    /\ \E j, k \in DOMAIN response.body :
          /\ response.body[j].total_cost.n > 0
          /\ response.body[j].profit_percentage.num > 0
          /\ response.body[k].total_cost.n = 0
          /\ response.body[k].profit.n > 0
          /\ response.body[k].profit_percentage.num = 0

-----------------------------------------------------------------------------
\* the lots of which get-inventory reports meters remaining
InStock == {L \in Lots : Reported(inventory, sales_records, L) > 0}

\* C18: get-inventory returns every lot, sold out or not; get-inventory-simple
\* returns a lot exactly when its remaining_meters is greater than zero, with
\* the remaining_meters get-inventory reports for it in the same state.
C18_Listings ==
    /\ response.op = "get_inventory" =>
          /\ Len(response.body) = Cardinality(Lots)
          /\ {response.body[j].id : j \in DOMAIN response.body} = Lots
    /\ response.op = "get_inventory_simple" =>
          /\ Len(response.body) = Cardinality(InStock)
          /\ {response.body[j].id : j \in DOMAIN response.body} = InStock
          /\ \A j \in DOMAIN response.body :
                LET e == response.body[j]
                IN  /\ e.company_name = inventory[e.id].company_name
                    /\ e.design_code = inventory[e.id].design_code
                    /\ Units(e.remaining_meters)
                          = Reported(inventory, sales_records, e.id)

\* the simplified listing was returned with one lot in stock and one lot
\* sold out or oversold
C18_Witness ==
    /\ response.op = "get_inventory_simple"
    /\ Len(response.body) = 1
    /\ \E L \in Lots : Reported(inventory, sales_records, L) <= 0

-----------------------------------------------------------------------------
\* C19 as stated: with add-stock and create-bill requests only, handled one
\* at a time, get-inventory never reports negative remaining_meters.
C19_AsStated ==
    response.op = "get_inventory" =>
       \A j \in DOMAIN response.body : response.body[j].remaining_meters.n >= 0

-----------------------------------------------------------------------------
\* C20 as stated: the remaining meters create-bill compares a request
\* against, on the kameez, the shalwar and the legacy path, are the
\* remaining_meters get-inventory reports for the lot in the same state.
C20_AsStated ==
    \A L \in Lots :
       /\ Units(remaining_kameez(inventory, sales_records, L))
             = Reported(inventory, sales_records, L)
       /\ Units(remaining_shalwar(inventory, sales_records, L))
             = Reported(inventory, sales_records, L)
       /\ Units(remaining_legacy(inventory, sales_records, L))
             = Reported(inventory, sales_records, L)

-----------------------------------------------------------------------------
\* C21 as stated: for every lot, the records with inventory_id = lot, the
\* records with kameez_inventory_id = lot and the records with
\* shalwar_inventory_id = lot are pairwise disjoint.
C21_AsStated ==
    \A L \in Lots :
       /\ LegacyLinked(L) \cap KameezLinked(L) = {}
       /\ LegacyLinked(L) \cap ShalwarLinked(L) = {}
       /\ KameezLinked(L) \cap ShalwarLinked(L) = {}

-----------------------------------------------------------------------------
\* C22: with requests handled one at a time, every non-null inventory_id,
\* kameez_inventory_id and shalwar_inventory_id of every sales record is the
\* id of a lot that exists.
C22_LinksExist ==
    \A i \in Sales :
       /\ sales_records[i].inventory_id \subseteq Lots
       /\ sales_records[i].kameez_inventory_id \subseteq Lots
       /\ sales_records[i].shalwar_inventory_id \subseteq Lots

\* a lot was deleted while a sales record references another lot
C22_Witness ==
    /\ response.op = "delete_stock"
    /\ response.status = 200
    /\ \E L \in Lots : Referenced(L)

-----------------------------------------------------------------------------
\* C23: a create-bill that fails with not-found or insufficient stock, on
\* any cut, inserts no sales record and changes no lot: the inventory and
\* sales tables are as they were before the request.
C23_FailedBillFrame ==
    [][\A bill \in BillCreateInputs :
          (Handles(bill) /\ (NotFound(response') \/ InsufficientStock(response')))
             => UNCHANGED <<inventory, sales_records, inventory_id_seq>>]_vars

\* a bill was refused for its shalwar cut with lots and sales on record
C23_Witness ==
    /\ response.op = "create_bill"
    /\ response.status = 400
    /\ response.detail = "Shalwar: Insufficient stock"
    /\ Cardinality(Lots) = 2
    /\ Sales # {}

-----------------------------------------------------------------------------
\* the sold_meters get-inventory reports of lot L
ReportedSold(inv, sales, L) ==
    LET result == get_inventory_result(inv, sales)
        j == CHOOSE k \in DOMAIN result : result[k].id = L
    IN  Units(result[j].sold_meters)

\* the entry e of get-profit-loss is that of lot L, with the meters sold
\* that get-inventory reports of L
SameMetersSold(e, L) ==
    /\ e.company_name = inventory[L].company_name
    /\ e.design_code = inventory[L].design_code
    /\ Units(e.cost_price_per_meter) = Units(inventory[L].cost_price_per_meter)
    /\ Units(e.meters_sold) = ReportedSold(inventory, sales_records, L)

\* C24: in every state, every lot get-profit-loss reports has as meters_sold
\* the sold_meters get-inventory reports of the same lot, and the lots
\* reported are those of which get-inventory reports meters sold.
C24_SameMetersSold ==
    LET report == get_profit_loss_result(inventory, sales_records)
        SoldLots == {L \in Lots : ReportedSold(inventory, sales_records, L) > 0}
    IN  /\ Len(report) = Cardinality(SoldLots)
        /\ \A L \in SoldLots :
              \E j \in DOMAIN report : SameMetersSold(report[j], L)
        /\ \A j \in DOMAIN report :
              \E L \in SoldLots : SameMetersSold(report[j], L)

\* get-profit-loss reported a lot that one record references through its
\* legacy link and through a split link
C24_Witness ==
    /\ response.op = "get_profit_loss"
    /\ response.body # <<>>
    /\ \E L \in Lots :
          LegacyLinked(L) \cap (KameezLinked(L) \cup ShalwarLinked(L)) # {}

-----------------------------------------------------------------------------
\* the request names no lot: the three link fields are absent
Unlinked(bill) ==
    /\ bill.inventory_id = None
    /\ bill.kameez_inventory_id = None
    /\ bill.shalwar_inventory_id = None

\* the record just inserted has no link and the labels of the request
StoredAsSupplied(bill) ==
    LET sale == sales_records'[Len(sales_records')]
    IN  /\ sale.inventory_id = None
        /\ sale.kameez_inventory_id = None
        /\ sale.shalwar_inventory_id = None
        /\ sale.company_name = bill.company_name
        /\ sale.design_code = bill.design_code
        /\ sale.kameez_company_name = bill.kameez_company_name
        /\ sale.kameez_design_code = bill.kameez_design_code
        /\ sale.shalwar_company_name = bill.shalwar_company_name
        /\ sale.shalwar_design_code = bill.shalwar_design_code

\* get-inventory reports of every lot the remaining_meters it reported
\* before the step
RemainingUnchanged ==
    /\ inventory' = inventory
    /\ \A L \in Lots :
          Reported(inventory', sales_records', L)
             = Reported(inventory, sales_records, L)

-----------------------------------------------------------------------------
\* the label stored for a request's label field given a validated lot: the
\* label of the request if it supplies one, the lot's label otherwise
LabelFrom(supplied, lot_label) ==
    IF supplied # None THEN supplied ELSE Some(lot_label)

\* C26 as stated: the record inserted takes each label the request does not
\* supply from the validated lot: under split linkage the cut's company and
\* design-code labels are those of the cut's lot, under legacy linkage both
\* cuts' labels and the bill's labels are those of the legacy lot; a label
\* the request supplies is stored as given.
C26_AsStated ==
    [][\A bill \in BillCreateInputs :
          (Handles(bill) /\ Inserted) =>
             LET sale == sales_records'[Len(sales_records')]
                 kameez_lot == inventory[Value(bill.kameez_inventory_id)]
                 shalwar_lot == inventory[Value(bill.shalwar_inventory_id)]
                 lot == inventory[Value(bill.inventory_id)]
             IN  /\ Truthy(bill.kameez_inventory_id) =>
                       /\ sale.kameez_company_name
                             = LabelFrom(bill.kameez_company_name, kameez_lot.company_name)
                       /\ sale.kameez_design_code
                             = LabelFrom(bill.kameez_design_code, kameez_lot.design_code)
                 /\ Truthy(bill.shalwar_inventory_id) =>
                       /\ sale.shalwar_company_name
                             = LabelFrom(bill.shalwar_company_name, shalwar_lot.company_name)
                       /\ sale.shalwar_design_code
                             = LabelFrom(bill.shalwar_design_code, shalwar_lot.design_code)
                 /\ LegacyOnly(bill) =>
                       /\ sale.company_name
                             = LabelFrom(bill.company_name, lot.company_name)
                       /\ sale.design_code
                             = LabelFrom(bill.design_code, lot.design_code)
                       /\ sale.kameez_company_name
                             = LabelFrom(bill.kameez_company_name, lot.company_name)
                       /\ sale.kameez_design_code
                             = LabelFrom(bill.kameez_design_code, lot.design_code)
                       /\ sale.shalwar_company_name
                             = LabelFrom(bill.shalwar_company_name, lot.company_name)
                       /\ sale.shalwar_design_code
                             = LabelFrom(bill.shalwar_design_code, lot.design_code)]_vars

=============================================================================
